---- MODULE Spec2Model ----
(***************************************************************************)
(* Model of iawk (src/src/main.rs): a streaming line filter that emits     *)
(* lines matching any of a set of regular expressions together with a      *)
(* configurable number of lines of context before and after each match.   *)
(*                                                                         *)
(* One run of `parse` is modelled: the regular expressions are compiled,   *)
(* then the records of the input are consumed one at a time until the      *)
(* reader is exhausted or a write to the output panics.                    *)
(*                                                                         *)
(* A Line of the model is the String of the program tagged with the        *)
(* number of the input record it came from ([pos, text]); the tag is       *)
(* carried along unchanged and never inspected by the modelled code, it    *)
(* only lets properties tell two records with the same text apart.  For    *)
(* the same reason every chunk accepted by the output carries the record   *)
(* number and the call site ("before", "match", "after") that wrote it.    *)
(***************************************************************************)
EXTENDS Integers, Sequences, FiniteSets, TLC

\* ------------------------------------------------------------------ bounds
MaxInput == 4      \* records read from the input in one run
MaxPatterns == 2   \* --regexp occurrences on the command line
MaxBefore == 2     \* largest --before value explored
MaxAfter == 2      \* largest --after value explored
MaxFailAt == 4     \* a failing sink fails at one of its first MaxFailAt writes

\* ------------------------------------------------------------ input domain
\* Texts of the input lines (two of the lines of the tests at main.rs:197):
\* each is matched by one of the two bracket expressions below and not by
\* the other.
Lines == { <<"a", "b", "c">>, <<"d", "e", "f">> }

\* Pattern strings given with --regexp: two bracket expressions (as in the
\* tests at main.rs:216-217) and two strings that are no regular expression
\* (an unclosed bracket, an unclosed group).
PatternStrings == { <<"[", "a", "]">>, <<"[", "e", "]">>, <<"[">>, <<"(">> }

\* The byte string written after every line (main.rs:175).
NL == <<"\n">>

VARIABLES
    regexp,         \* Arguments.regexp: the pattern strings, in command-line order
    before_lines,   \* Arguments.before_lines (i32)
    after_lines,    \* Arguments.after_lines (i32)
    regexps,        \* the compiled Vec<Regex> of parse
    before_buffer,  \* CircularBuffer<String> of parse, oldest line first
    after_line,     \* the i32 counter of parse
    read,           \* the records the reader has yielded so far
    output,         \* the chunks the output has accepted, in order
    stderr,         \* the messages written to the error stream
    panic,          \* the panic that ended the run: << >> or << message, cause >>
    pc              \* "start", "scan", "done" or "panicked"

vars == << regexp, before_lines, after_lines, regexps, before_buffer,
           after_line, read, output, stderr, panic, pc >>

args == << regexp, before_lines, after_lines >>

\* ------------------------------------------------------------------- regex
\* Regex::new on a pattern string.  The strings of the model are bracket
\* expressions: "[" c1 .. cn "]" with n >= 1 compiles to the class {c1..cn};
\* anything else does not compile.
RegexNew(r) ==
    IF Len(r) >= 3 /\ r[1] = "[" /\ r[Len(r)] = "]"
    THEN [ok |-> TRUE, class |-> { r[i] : i \in 2..(Len(r) - 1) }]
    ELSE [ok |-> FALSE, class |-> {}]

\* Regex::is_match: an unanchored search, true when some character of the
\* text belongs to the class.
is_match(re, text) == \E i \in 1..Len(text) : text[i] \in re

\* Mutant of is_match_any: every expression has to match (vacuously true of
\* an empty set).
is_match_any_all(text, res) == \A i \in 1..Len(res) : is_match(res[i], text)

\* Mutant of is_match_any: only the first expression is consulted.
is_match_any_first(text, res) == res # << >> /\ is_match(Head(res), text)

\* Mutant of compile_regexps: all the pattern strings are compiled and the
\* failure kept is that of the last one that does not compile.
RECURSIVE compile_regexps_last_error(_, _)
compile_regexps_last_error(rs, acc) ==
    IF rs = << >> THEN [ok |-> TRUE, regexps |-> acc, pattern |-> << >>]
    ELSE LET c == RegexNew(Head(rs))
             rest == compile_regexps_last_error(Tail(rs), Append(acc, c.class))
         IN  IF c.ok \/ ~rest.ok THEN rest
             ELSE [ok |-> FALSE, regexps |-> << >>, pattern |-> Head(rs)]

\* main.rs:128-132: the pattern strings are compiled one after the other, in
\* the order of the vector, into the vector acc; expect panics at the first
\* one that Regex::new rejects and the strings after it are not looked at.
RECURSIVE compile_regexps(_, _)
compile_regexps(rs, acc) ==
    IF rs = << >> THEN [ok |-> TRUE, regexps |-> acc, pattern |-> << >>]
    ELSE LET c == RegexNew(Head(rs))
         IN  IF c.ok THEN compile_regexps(Tail(rs), Append(acc, c.class))
             ELSE [ok |-> FALSE, regexps |-> << >>, pattern |-> Head(rs)]

\* is_match_any (main.rs:156-163): the loop over the expressions in order,
\* returning at the first one that matches.
RECURSIVE is_match_any(_, _)
is_match_any(text, res) ==
    IF res = << >> THEN FALSE
    ELSE IF is_match(Head(res), text) THEN TRUE
    ELSE is_match_any(text, Tail(res))

\* --------------------------------------------------------- circular buffer
\* Mutant of BelowCapacity: the comparison is off by one.
BelowCapacityOffByOne(len) == IF before_lines < 0 THEN TRUE ELSE len <= before_lines

\* `before_lines as usize` (main.rs:123) compared with a length, as
\* queues::CircularBuffer does (len < capacity).  A negative i32 sign-extends
\* to a value above isize::MAX, which no Vec length reaches.
BelowCapacity(len) == IF before_lines < 0 THEN TRUE ELSE len < before_lines

\* Mutant of add: a full buffer keeps growing.
add_no_evict(buf, line) == Append(buf, line)

\* CircularBuffer::add as called at main.rs:144: the value is appended; when
\* the buffer was already at capacity the oldest element is removed.
add(buf, line) ==
    IF BelowCapacity(Len(buf)) THEN Append(buf, line)
    ELSE Tail(Append(buf, line))

\* ------------------------------------------------------------------ output
\* The output during the handling of one record: the chunks accepted so far,
\* the number of write_all calls made while handling this record, and the
\* call at which the sink fails (0: it does not fail).
NewSink(data, fail_at) ==
    [data |-> data, calls |-> 0, fail_at |-> fail_at, failed |-> FALSE]

\* Mutant of write_all: a failed write is ignored and the scan goes on.
write_all_ignore_error(sink, chunk) ==
    IF sink.calls + 1 = sink.fail_at
    THEN [sink EXCEPT !.calls = @ + 1]
    ELSE [sink EXCEPT !.calls = @ + 1, !.data = Append(@, chunk)]

\* Write::write_all followed by unwrap (main.rs:174-175): the chunk is
\* appended, or the call fails and the unwrap panics.
write_all(sink, chunk) ==
    IF sink.failed THEN sink
    ELSE IF sink.calls + 1 = sink.fail_at
         THEN [sink EXCEPT !.calls = @ + 1, !.failed = TRUE]
         ELSE [sink EXCEPT !.calls = @ + 1, !.data = Append(@, chunk)]

\* output_line (main.rs:173-176): the bytes of the line, then a newline.
output_line(line, role, sink) ==
    LET s1 == write_all(sink, [pos |-> line.pos, role |-> role, bytes |-> line.text])
    IN  IF s1.failed THEN s1
        ELSE write_all(s1, [pos |-> line.pos, role |-> role, bytes |-> NL])

\* Mutant of output_before_lines: the newest buffered line is written first.
RECURSIVE output_before_lines_newest_first(_, _)
output_before_lines_newest_first(buf, sink) ==
    IF Len(buf) > 0 /\ ~sink.failed
    THEN output_before_lines_newest_first(
             SubSeq(buf, 1, Len(buf) - 1), output_line(buf[Len(buf)], "before", sink))
    ELSE [before_buffer |-> buf, sink |-> sink]

\* Mutant of output_before_lines: the buffered lines are written, oldest
\* first, and stay in the buffer.
RECURSIVE write_all_lines(_, _)
write_all_lines(buf, sink) ==
    IF Len(buf) > 0 /\ ~sink.failed
    THEN write_all_lines(Tail(buf), output_line(Head(buf), "before", sink))
    ELSE sink

output_before_lines_keep(buf, sink) ==
    [before_buffer |-> buf, sink |-> write_all_lines(buf, sink)]

\* output_before_lines (main.rs:165-171): while the buffer is not empty its
\* oldest line is removed and written.
RECURSIVE output_before_lines(_, _)
output_before_lines(buf, sink) ==
    IF Len(buf) > 0 /\ ~sink.failed
    THEN output_before_lines(Tail(buf), output_line(Head(buf), "before", sink))
    ELSE [before_buffer |-> buf, sink |-> sink]

\* -------------------------------------------------------------------- scan
\* main.rs:137-139: the buffered lines are flushed, the matching line is
\* written and the counter is set to after_lines.  A panic inside a call
\* leaves the rest undone.
match_arm(st, line) ==
    LET f == output_before_lines(st.before_buffer, st.sink)
        s == output_line(line, "match", f.sink)
    IN  [before_buffer |-> f.before_buffer,
         after_line    |-> IF s.failed THEN st.after_line ELSE after_lines,
         sink          |-> s]

\* Mutant of after_arm: the counter is not decremented.
after_arm_no_decrement(st, line) ==
    [st EXCEPT !.sink = output_line(line, "after", st.sink)]

\* Mutant of after_arm: a line written as trailing context is also added to
\* the buffer.
after_arm_also_buffers(st, line) ==
    LET s == output_line(line, "after", st.sink)
    IN  [before_buffer |-> add(st.before_buffer, line),
         after_line    |-> IF s.failed THEN st.after_line ELSE st.after_line - 1,
         sink          |-> s]

\* main.rs:141-142: the line is written and the counter decremented.
after_arm(st, line) ==
    LET s == output_line(line, "after", st.sink)
    IN  [before_buffer |-> st.before_buffer,
         after_line    |-> IF s.failed THEN st.after_line ELSE st.after_line - 1,
         sink          |-> s]

\* main.rs:144: the line is added to the buffer.
buffer_arm(st, line) ==
    [st EXCEPT !.before_buffer = add(st.before_buffer, line)]

\* Mutant of handle_line: a matching line is recognized as a match whatever
\* the counter, so a match inside a trailing window re-arms the counter.
handle_line_rearm(st, line, res) ==
    IF is_match_any(line.text, res) THEN match_arm(st, line)
    ELSE IF st.after_line > 0 THEN after_arm(st, line)
    ELSE buffer_arm(st, line)

\* The Ok arm of the loop body of parse (main.rs:135-146) applied to the
\* state st = [before_buffer, after_line, sink].
handle_line(st, line, res) ==
    IF st.after_line <= 0 /\ is_match_any(line.text, res) THEN match_arm(st, line)
    ELSE IF st.after_line > 0 THEN after_arm(st, line)
    ELSE buffer_arm(st, line)

\* The state of parse before the first record (main.rs:122-127).
ScanStart ==
    [before_buffer |-> << >>, after_line |-> 0, sink |-> NewSink(<< >>, 0)]

\* The loop of parse over a sequence of readable lines with a reliable
\* output (main.rs:133-146).
RECURSIVE ScanLines(_, _, _)
ScanLines(st, lines, res) ==
    IF lines = << >> THEN st
    ELSE ScanLines(handle_line(st, Head(lines), res), Tail(lines), res)

\* ------------------------------------------------------------------ reader
\* Mutant of lines_strip: the record is yielded with its terminator.
lines_keep_terminator(raw) == raw

\* BufRead::lines (main.rs:133): the String yielded for a record is the
\* record without its terminating newline; the last record of a stream may
\* come without one.
lines_strip(raw) ==
    IF raw # << >> /\ raw[Len(raw)] = "\n" THEN SubSeq(raw, 1, Len(raw) - 1) ELSE raw

\* The reader can yield a further record: the loop is running and the last
\* record did not end the stream without a terminator.
CanRead ==
    /\ pc = "scan"
    /\ Len(read) < MaxInput
    /\ read # << >> => read[Len(read)].terminated

\* ----------------------------------------------------------------- actions
Init ==
    /\ regexp \in UNION { [1..n -> PatternStrings] : n \in 0..MaxPatterns }
    /\ before_lines \in -1..MaxBefore
    /\ after_lines \in -1..MaxAfter
    /\ regexps = << >>
    /\ before_buffer = << >>
    /\ after_line = 0
    /\ read = << >>
    /\ output = << >>
    /\ stderr = << >>
    /\ panic = << >>
    /\ pc = "start"

\* main.rs:128-132: every pattern string is compiled, in order; expect
\* panics at the first one that does not compile, with a message that
\* carries the error of that pattern.
CompileRegexps ==
    /\ pc = "start"
    /\ LET c == compile_regexps(regexp, << >>)
       IN  IF c.ok
           THEN /\ regexps' = c.regexps
                /\ panic' = panic
                /\ pc' = "scan"
           ELSE /\ regexps' = regexps
                /\ panic' = << "Invalid regular expression", c.pattern >>
                /\ pc' = "panicked"
    /\ UNCHANGED << args, before_buffer, after_line, read, output, stderr >>

\* main.rs:133-146: the reader yields Ok(line) for a record that ends with a
\* newline or, at the end of the stream, without one.
ReadLineOk ==
    /\ CanRead
    /\ \E content \in Lines, terminated \in BOOLEAN, fail_at \in 0..MaxFailAt :
         LET raw == IF terminated THEN content \o NL ELSE content
             text == lines_strip(raw)
             line == [pos |-> Len(read) + 1, text |-> text]
             st == [before_buffer |-> before_buffer, after_line |-> after_line,
                    sink |-> NewSink(output, fail_at)]
             r == handle_line(st, line, regexps)
         IN  /\ read' = Append(read, [pos |-> line.pos, ok |-> TRUE, text |-> text,
                                       terminated |-> terminated])
             /\ before_buffer' = r.before_buffer
             /\ after_line' = r.after_line
             /\ output' = r.sink.data
             /\ pc' = IF r.sink.failed THEN "panicked" ELSE "scan"
             /\ panic' = IF r.sink.failed
                         THEN << "called Result::unwrap() on an Err value", "write" >>
                         ELSE panic
    /\ UNCHANGED << args, regexps, stderr >>

\* Mutant of ReadLineErr: an unreadable record uses up one line of a pending
\* trailing window.
ReadLineErrCounted ==
    /\ CanRead
    /\ read' = Append(read, [pos |-> Len(read) + 1, ok |-> FALSE, text |-> << >>,
                            terminated |-> TRUE])
    /\ stderr' = Append(stderr, "Error reading line: ")
    /\ after_line' = IF after_line > 0 THEN after_line - 1 ELSE after_line
    /\ UNCHANGED << args, regexps, before_buffer, output, panic, pc >>

\* main.rs:147-151: the reader yields Err(e); a message goes to stderr.
ReadLineErr ==
    /\ CanRead
    /\ read' = Append(read, [pos |-> Len(read) + 1, ok |-> FALSE, text |-> << >>,
                            terminated |-> TRUE])
    /\ stderr' = Append(stderr, "Error reading line: ")
    /\ UNCHANGED << args, regexps, before_buffer, after_line, output, panic, pc >>

\* Mutant of EndOfInput: the lines still buffered are flushed at the end.
EndOfInputFlush ==
    /\ pc = "scan"
    /\ pc' = "done"
    /\ output' = output_before_lines(before_buffer, NewSink(output, 0)).sink.data
    /\ before_buffer' = << >>
    /\ UNCHANGED << args, regexps, after_line, read, stderr, panic >>

\* Mutant of EndOfInput: the loop is not left when the reader is exhausted.
EndOfInputLoops ==
    /\ pc = "scan"
    /\ pc' = "scan"
    /\ UNCHANGED << args, regexps, before_buffer, after_line, read, output, stderr,
                    panic >>

\* main.rs:133, 154: the reader is exhausted, the loop and parse end.
EndOfInput ==
    /\ pc = "scan"
    /\ pc' = "done"
    /\ UNCHANGED << args, regexps, before_buffer, after_line, read, output, stderr,
                    panic >>

Next == CompileRegexps \/ ReadLineOk \/ ReadLineErr \/ EndOfInput

Spec == Init /\ [][Next]_vars

\* parse runs without being suspended for good, so a run that has not compiled
\* its expressions yet does so (main.rs:128-132); and the input is finite, so
\* the reader comes to its end and the loop of main.rs:133 is left.
FairSpec == Spec /\ WF_vars(CompileRegexps) /\ WF_vars(EndOfInput)

\* ------------------------------------------------------------------- views
\* The readable lines among the records read, in order.
OkLines ==
    LET s == SelectSeq(read, LAMBDA r : r.ok)
    IN  [i \in 1..Len(s) |-> [pos |-> s[i].pos, text |-> s[i].text]]

\* The line chunks of the output (the newline chunks left out).
OutLines == SelectSeq(output, LAMBDA c : c.bytes # NL)

\* The text and record number of each line chunk of a chunk sequence.
LinesOf(chunks) ==
    LET s == SelectSeq(chunks, LAMBDA c : c.bytes # NL)
    IN  [i \in 1..Len(s) |-> [pos |-> s[i].pos, text |-> s[i].bytes]]

\* The run has not panicked: parse is in its loop or has returned.
Running == pc \in {"scan", "done"}

\* Some compiled expression matches the text.
Matches(text) == \E i \in 1..Len(regexps) : is_match(regexps[i], text)

\* The readable lines read after record p, in order.
FollowingOk(p) == SelectSeq(OkLines, LAMBDA l : l.pos > p)

\* The readable lines read after record p and before record q, in order.
BetweenOk(p, q) == SelectSeq(OkLines, LAMBDA l : l.pos > p /\ l.pos < q)

Min(a, b) == IF a <= b THEN a ELSE b

Max(a, b) == IF a >= b THEN a ELSE b

\* The record number of the match recognized last before output line i, or
\* 0 when output line i belongs to the first match: where the buffer was
\* flushed the time before.
PrevFlushPos(i) ==
    LET S == { j \in 1..(i - 1) : OutLines[j].role = "match" }
    IN  IF S = {} THEN 0 ELSE OutLines[CHOOSE j \in S : \A k \in S : k <= j].pos

\* The number of consecutive before-context lines written right before
\* output line i.
BeforeRun(i) ==
    LET S == { n \in 0..(i - 1) : \A j \in 1..n : OutLines[i - j].role = "before" }
    IN  CHOOSE n \in S : \A k \in S : k <= n

\* Output line i is a recognized match preceded by exactly the last m lines
\* of `prior`, oldest first, written as before-context.
FlushedExactly(i, prior, m) ==
    /\ BeforeRun(i) = m
    /\ \A j \in 1..m :
          /\ OutLines[i - m + j - 1].pos = prior[Len(prior) - m + j].pos
          /\ OutLines[i - m + j - 1].bytes = prior[Len(prior) - m + j].text

\* No record is written as before-context twice.
NoLineFlushedTwice ==
    \A i, j \in 1..Len(OutLines) :
        (i # j /\ OutLines[i].role = "before" /\ OutLines[j].role = "before")
            => OutLines[i].pos # OutLines[j].pos

\* The orders in which the expressions q can be given.
Reorderings(q) ==
    LET n == Len(q)
        P == { f \in [1..n -> 1..n] : \A a, b \in 1..n : a # b => f[a] # f[b] }
    IN  { [i \in 1..n |-> q[f[i]]] : f \in P }

\* The readable lines read, numbered as the records of the stream that is
\* left when the unreadable records are removed.
Cleaned == [i \in 1..Len(OkLines) |-> [pos |-> i, text |-> OkLines[i].text]]

\* The call site and byte string of each chunk, in order.
RoleBytesOf(chunks) ==
    [i \in 1..Len(chunks) |-> [role |-> chunks[i].role, bytes |-> chunks[i].bytes]]

\* The step reads one more record, a readable one / an unreadable one.
ReadsOk == Len(read') = Len(read) + 1 /\ read'[Len(read')].ok
ReadsErr == Len(read') = Len(read) + 1 /\ ~read'[Len(read')].ok

\* s is a prefix of t.
IsPrefix(s, t) == Len(s) <= Len(t) /\ SubSeq(t, 1, Len(s)) = s

TypeOK ==
    /\ pc \in {"start", "scan", "done", "panicked"}
    /\ before_lines \in -1..MaxBefore
    /\ after_lines \in -1..MaxAfter
    /\ Len(read) <= MaxInput

\* ------------------------------------------------------------------ claims

\* C1: with before_lines = 0 and after_lines = 0 the lines of the output are
\* exactly the readable input lines that match at least one expression, in
\* input order, each written once as a match and followed by its newline.
C1_OnlyMatchingLines ==
    (before_lines = 0 /\ after_lines = 0 /\ Running) =>
        /\ LinesOf(output) = SelectSeq(OkLines, LAMBDA l : Matches(l.text))
        /\ Len(output) = 2 * Len(OutLines)
        /\ \A i \in 1..Len(OutLines) : OutLines[i].role = "match"

\* C1 witness: a finished run without context in which two lines were
\* written and a third, non-matching line was read and left out.
C1_Witness ==
    /\ pc = "done" /\ before_lines = 0 /\ after_lines = 0
    /\ Len(OutLines) = 2
    /\ \E i \in 1..Len(OkLines) : ~Matches(OkLines[i].text)

\* C2: with after_lines = A >= 0, every recognized match is followed in the
\* output by exactly the next min(A, lines remaining) readable lines, written
\* as trailing context; with A = 0 the chunk after a match is never trailing
\* context and a matching next line is itself recognized as a match.
C2_TrailingContext ==
    (after_lines >= 0 /\ Running) =>
        \A i \in 1..Len(OutLines) :
            OutLines[i].role = "match" =>
                LET f == FollowingOk(OutLines[i].pos)
                    n == Min(after_lines, Len(f))
                IN  /\ i + n <= Len(OutLines)
                    /\ \A j \in 1..n :
                          /\ OutLines[i + j].role = "after"
                          /\ OutLines[i + j].pos = f[j].pos
                          /\ OutLines[i + j].bytes = f[j].text
                    /\ i + n + 1 <= Len(OutLines) => OutLines[i + n + 1].role # "after"
                    /\ (after_lines = 0 /\ Len(f) >= 1 /\ Matches(f[1].text)) =>
                          /\ i + 1 <= Len(OutLines)
                          /\ OutLines[i + 1].role = "match"
                          /\ OutLines[i + 1].pos = f[1].pos

\* C2 witness: a finished run with after_lines = 1 in which a match had its
\* full trailing window and a later match was cut short by the end of input.
C2_Witness ==
    /\ pc = "done" /\ after_lines = 1
    /\ \E i, k \in 1..Len(OutLines) :
          /\ OutLines[i].role = "match" /\ OutLines[k].role = "match"
          /\ Len(FollowingOk(OutLines[i].pos)) >= 2
          /\ FollowingOk(OutLines[k].pos) = << >>

\* C3 as claimed: with before_lines = B the lines flushed before a recognized
\* match are the last min(B, k) readable lines before it, k being the number
\* of lines read since the previous flush (or the start), and no line is
\* flushed twice.
C3_BeforeContextAsClaimed ==
    (before_lines >= 0 /\ after_lines >= 0 /\ Running) =>
        /\ NoLineFlushedTwice
        /\ \A i \in 1..Len(OutLines) :
              OutLines[i].role = "match" =>
                  LET prior == BetweenOk(PrevFlushPos(i), OutLines[i].pos)
                  IN  FlushedExactly(i, prior, Min(before_lines, Len(prior)))

\* C3 amended: the lines flushed before a recognized match are the last
\* min(capacity, k) readable lines before it, where capacity is before_lines
\* as a size (unbounded when before_lines is negative) and k counts the lines
\* read since the previous flush without the lines written as trailing
\* context of that match (its next after_lines lines); no line is flushed
\* twice.
C3_BeforeContext ==
    Running =>
        /\ NoLineFlushedTwice
        /\ \A i \in 1..Len(OutLines) :
              OutLines[i].role = "match" =>
                  LET since == BetweenOk(PrevFlushPos(i), OutLines[i].pos)
                      trailing == IF PrevFlushPos(i) = 0 THEN 0
                                  ELSE Min(Max(after_lines, 0), Len(since))
                      k == Len(since) - trailing
                      m == IF before_lines < 0 THEN k ELSE Min(before_lines, k)
                  IN  FlushedExactly(i, since, m)

\* C3 witness: a second match, two lines after the first one, whose flush
\* wrote the one line that was buffered and not the line before it, which had
\* been written as trailing context of the first match.
C3_Witness ==
    /\ Running /\ before_lines = 2 /\ after_lines = 1
    /\ \E i \in 1..Len(OutLines) :
          /\ OutLines[i].role = "match"
          /\ PrevFlushPos(i) > 0
          /\ BeforeRun(i) = 1
          /\ Len(BetweenOk(PrevFlushPos(i), OutLines[i].pos)) = 2

\* C4: a readable line arriving while the counter is positive is written as
\* trailing context whether or not it matches, leaves the buffer alone and
\* lowers the counter by exactly one; the counter only ever rises in a step
\* that recognizes a match with the counter at 0, and then to after_lines.
C4_NoRearmInsideWindow ==
    [][ /\ (after_line > 0 /\ ReadsOk /\ pc' = "scan") =>
              LET l == read'[Len(read')]
              IN  /\ after_line' = after_line - 1
                  /\ before_buffer' = before_buffer
                  /\ output' = output \o
                        << [pos |-> l.pos, role |-> "after", bytes |-> l.text],
                           [pos |-> l.pos, role |-> "after", bytes |-> NL] >>
        /\ after_line' > after_line =>
              /\ after_line = 0
              /\ after_line' = after_lines
              /\ ReadsOk
              /\ Matches(read'[Len(read')].text)
      ]_vars

\* C4 witness: a matching line was written as trailing context, the window
\* ended, and a later readable line was not written.
C4_Witness ==
    /\ Running /\ after_line = 0 /\ after_lines >= 1
    /\ \E i \in 1..Len(OutLines) :
          /\ OutLines[i].role = "after"
          /\ Matches(OutLines[i].bytes)
          /\ \E k \in 1..Len(OkLines) :
                /\ OkLines[k].pos > OutLines[i].pos
                /\ \A j \in 1..Len(OutLines) : OutLines[j].pos # OkLines[k].pos

\* C5: with no pattern string given nothing is ever written to the output,
\* whatever before_lines and after_lines are.
C5_EmptyPatternSet == regexp = << >> => output = << >>

\* C5 witness: a finished run without patterns, with context on both sides
\* configured, that read three lines and still holds lines in the buffer.
C5_Witness ==
    /\ regexp = << >> /\ pc = "done"
    /\ before_lines >= 1 /\ after_lines >= 1
    /\ Len(OkLines) >= 3 /\ before_buffer # << >>

\* C6: is_match_any is true of a line exactly when some expression matches
\* it, and the output of the run is the output the scan produces for every
\* other order of the same expressions.
C6_OrderIrrelevant ==
    Running =>
        /\ \A text \in Lines : is_match_any(text, regexps) <=> Matches(text)
        /\ \A q \in Reorderings(regexps) :
              ScanLines(ScanStart, OkLines, q).sink.data = output

\* C6 witness: a finished run with two different expressions whose output
\* holds a match that the first expression alone does not match.
C6_Witness ==
    /\ pc = "done" /\ Len(regexps) = 2 /\ regexps[1] # regexps[2]
    /\ \E i \in 1..Len(OutLines) :
          /\ OutLines[i].role = "match"
          /\ ~is_match(regexps[1], OutLines[i].bytes)

C8_NoFlushAtEnd ==
    [][ /\ pc # "done"
        /\ pc' = "done" =>
              /\ output' = output
              /\ \A i \in 1..Len(before_buffer) : \A j \in 1..Len(output') :
                    output'[j].pos # before_buffer[i].pos
      ]_vars

\* C8 witness: a finished run that wrote something and ended with lines in
\* the buffer.
C8_Witness == pc = "done" /\ before_buffer # << >> /\ output # << >>

C10_WriteFailureAborts ==
    [][ /\ pc # "panicked"
        /\ ReadsOk =>
              LET l == read'[Len(read')]
                  st == [before_buffer |-> before_buffer, after_line |-> after_line,
                         sink |-> NewSink(output, 0)]
                  full == handle_line(st, [pos |-> l.pos, text |-> l.text], regexps).sink.data
              IN  \/ pc' = "scan" /\ output' = full
                  \/ /\ pc' = "panicked"
                     /\ IsPrefix(output, output')
                     /\ IsPrefix(output', full)
                     /\ output' # full
      ]_vars

\* C10 witness: a panic in the middle of a flush: the bytes of a buffered
\* line were written and the write of its newline failed.
C10_Witness ==
    /\ pc = "panicked" /\ output # << >>
    /\ output[Len(output)].role = "before"
    /\ output[Len(output)].bytes # NL

\* The pattern strings that Regex::new rejects, in command-line order.
InvalidPatterns == SelectSeq(regexp, LAMBDA r : ~RegexNew(r).ok)

\* C11: when some pattern string does not compile, the run panics in the
\* compilation and never scans: no record is read, nothing is written to the
\* output or to stderr, and the panic reports the first invalid pattern in
\* command-line order.
C11_InvalidPatternFatal ==
    (InvalidPatterns # << >> /\ pc # "start") =>
        /\ pc = "panicked"
        /\ read = << >>
        /\ output = << >>
        /\ stderr = << >>
        /\ panic = << "Invalid regular expression", InvalidPatterns[1] >>

\* C11 witness: a run given two different invalid patterns has panicked.
C11_Witness ==
    /\ pc = "panicked"
    /\ Len(InvalidPatterns) = 2
    /\ InvalidPatterns[1] # InvalidPatterns[2]

\* C13: every line written is followed by exactly one newline: the output is
\* a sequence of pairs, the bytes of a line, which contain no newline, and
\* one newline chunk written for the same line, whether or not the record
\* ended with a newline.  Only the write that panics can leave the last line
\* of the output without its newline.
C13_OneNewlinePerLine ==
    /\ \A k \in 1..Len(output) :
          IF k % 2 = 1
          THEN /\ \A c \in 1..Len(output[k].bytes) : output[k].bytes[c] # "\n"
               /\ k < Len(output) \/ pc = "panicked"
          ELSE /\ output[k].bytes = NL
               /\ output[k].pos = output[k - 1].pos
    /\ Running => Len(output) % 2 = 0

\* C13 witness: a finished run wrote the last record of the stream, which
\* came without a newline, after a record that had one.
C13_Witness ==
    /\ pc = "done" /\ Len(output) = 4
    /\ read[output[1].pos].terminated
    /\ ~read[output[3].pos].terminated

\* C14 as claimed: the counter is never negative and, for a configured number
\* of trailing lines, never above after_lines.
C14_CounterInRange ==
    /\ after_line >= 0
    /\ after_lines >= 0 => after_line <= after_lines

\* C15: the lines of the output are input lines in input order, each record
\* written at most once: every line chunk carries the text of the readable
\* record it names, and the record numbers strictly increase along the
\* output, also where the trailing window of one match meets the flushed
\* context of the next.
C15_OutputIsSubsequence ==
    /\ \A i \in 1..Len(OutLines) :
          /\ OutLines[i].pos \in 1..Len(read)
          /\ read[OutLines[i].pos].ok
          /\ read[OutLines[i].pos].text = OutLines[i].bytes
    /\ \A i \in 1..(Len(OutLines) - 1) : OutLines[i].pos < OutLines[i + 1].pos

\* C15 witness: the last trailing line of one match is directly followed in
\* the output by a line flushed as before-context of the next match.
C15_Witness ==
    /\ Running
    /\ \E i \in 1..(Len(OutLines) - 1) :
          OutLines[i].role = "after" /\ OutLines[i + 1].role = "before"

\* The run has ended: parse returned or panicked.
Terminated == pc \in {"done", "panicked"}

\* A step that consumes exactly the next record of the stream and leaves the
\* records read before it as they were.
NextRecordRead ==
    /\ Len(read') = Len(read) + 1
    /\ SubSeq(read', 1, Len(read)) = read
    /\ read'[Len(read')].pos = Len(read')

\* A step that recognizes a match and does not panic.
RecognizesMatch ==
    /\ ReadsOk /\ pc' = "scan" /\ after_line <= 0
    /\ Matches(read'[Len(read')].text)

\* C16: the run ends; every step that reads consumes exactly the next record
\* of the stream and leaves the records read before untouched; and a step
\* that recognizes a match without panicking leaves the buffer empty.
C16_Terminates ==
    /\ <>Terminated
    /\ [][ /\ (read' = read) \/ NextRecordRead
           /\ RecognizesMatch => before_buffer' = << >>
         ]_vars

\* C16 witness: a finished run that read as many records as the bound allows
\* and flushed two buffered lines before its last match.
C16_Witness ==
    /\ pc = "done" /\ Len(read) = MaxInput
    /\ \E i \in 3..Len(OutLines) :
          /\ OutLines[i].role = "match"
          /\ OutLines[i - 1].role = "before" /\ OutLines[i - 2].role = "before"

\* C17: with after_lines >= 0, whatever before_lines is, every readable line
\* that matches an expression is in the output of a run that has not
\* panicked, written as a match or as trailing context, and no line held in
\* the buffer matches.
C17_MatchingLinesEmitted ==
    (after_lines >= 0 /\ Running) =>
        /\ \A k \in 1..Len(OkLines) :
              Matches(OkLines[k].text) =>
                  \E i \in 1..Len(OutLines) :
                      /\ OutLines[i].pos = OkLines[k].pos
                      /\ OutLines[i].role \in {"match", "after"}
        /\ \A b \in 1..Len(before_buffer) : ~Matches(before_buffer[b].text)

\* C17 witness: one matching line was written as a match, a later matching
\* line as trailing context, and a line that does not match is held in the
\* buffer.
C17_Witness ==
    /\ Running /\ after_lines >= 1 /\ before_lines >= 1
    /\ before_buffer # << >>
    /\ \E i, j \in 1..Len(OutLines) :
          /\ OutLines[i].role = "match"
          /\ OutLines[j].role = "after" /\ Matches(OutLines[j].bytes)

\* C18: whenever the counter is positive the buffer is empty, and no record
\* is written both as trailing context and as before-context.
C18_BufferEmptyInWindow ==
    /\ after_line > 0 => before_buffer = << >>
    /\ \A i, j \in 1..Len(OutLines) :
          (OutLines[i].role = "after" /\ OutLines[j].role = "before")
              => OutLines[i].pos # OutLines[j].pos

\* C18 witness: a match that flushed buffered lines has armed the counter.
C18_Witness ==
    /\ after_line > 0 /\ pc = "scan"
    /\ \E i \in 2..Len(OutLines) :
          /\ OutLines[i].role = "match" /\ OutLines[i - 1].role = "before"
          /\ i = Len(OutLines)

\* C19 as claimed: a matching line that arrives while the counter c is
\* positive leaves the counter at max(c - 1 - 1, after_lines).
C19_CounterAsClaimed ==
    [][ (after_line > 0 /\ ReadsOk /\ pc' = "scan" /\ Matches(read'[Len(read')].text))
            => after_line' = Max(after_line - 1 - 1, after_lines)
      ]_vars

\* C19 amended: a matching line that arrives while the counter c is positive
\* leaves the counter at c - 1.
C19_CounterDecremented ==
    [][ (after_line > 0 /\ ReadsOk /\ pc' = "scan" /\ Matches(read'[Len(read')].text))
            => after_line' = after_line - 1
      ]_vars

\* C19 witness: a matching line arrived with the counter at 2 and left it
\* at 1.
C19_Witness ==
    /\ pc = "scan" /\ after_lines = 2 /\ after_line = 1
    /\ Len(OutLines) >= 2
    /\ OutLines[Len(OutLines)].role = "after"
    /\ Matches(OutLines[Len(OutLines)].bytes)
    /\ OutLines[Len(OutLines) - 1].role = "match"
====
